---- MODULE Spec2Model ----
(***************************************************************************)
(* A model of httomolibgpu's data-correction modules:                      *)
(*   prep/alignment.py  the distortion-correction memory estimator, the    *)
(*                      two distortion correctors and the metadata loader  *)
(*   misc/corr.py       the 3D median / dezinger filter                    *)
(*                                                                         *)
(* Every component has a specification of its own (SpecEst, SpecLoad, ...) *)
(* over the same variables; the variables of the other components stay at  *)
(* their idle values.                                                       *)
(*                                                                         *)
(* Numbers.  Byte counts are integers.  A parsed decimal is the pair       *)
(* [m, e] standing for m / 10^e with trailing zeros removed, so that two   *)
(* spellings of one number are the same value.                             *)
(***************************************************************************)
EXTENDS Integers, Sequences, FiniteSets, TLC

VARIABLES
    est,        \* the estimator call: its arguments, position and result
    load,       \* the metadata loader call: the file, position and result
    med,        \* the median / dezinger filter call
    dist        \* the distortion-correction call (either variant)

vars == <<est, load, med, dist>>

Abs(x) == IF x < 0 THEN -x ELSE x
Min2(a, b) == IF a <= b THEN a ELSE b
Max2(a, b) == IF a >= b THEN a ELSE b

(***************************************************************************)
(* alignment.py: _calc_max_slices_distortion_correction_proj               *)
(***************************************************************************)

\* Bounds of the estimator's inputs.
MaxDim == 3
MaxAvail == 1500

\* np.float64().nbytes
Float64Bytes == 8

\* dtype.itemsize of the element types a volume may have
Itemsize(dtype) ==
    CASE dtype = "uint16" -> 2
      [] dtype = "float32" -> 4

Dtypes == {"uint16", "float32"}

lists_size(height, width) == (width + height) * Float64Bytes
meshgrid_size(height, width) == (width * height * 2) * Float64Bytes
ru_mat_size(height, width) == meshgrid_size(height, width) \div 2
fact_mat_size(height, width) == ru_mat_size(height, width)
xd_mat_size(height, width) == fact_mat_size(height, width) \div 2
yd_mat_size(height, width) == fact_mat_size(height, width) \div 2
indices_size(height, width) == xd_mat_size(height, width) + yd_mat_size(height, width)

slice_size(height, width, dtype) == (height * width) * Itemsize(dtype)
processing_size(height, width, dtype) == slice_size(height, width, dtype) * 4

\* Mutant: the polynomial-sum matrix is counted once and the loop's
\* temporaries are left out of what is subtracted.
subtracted_fact_once(height, width, dtype) ==
    lists_size(height, width)
    + meshgrid_size(height, width)
    + ru_mat_size(height, width)
    + fact_mat_size(height, width)
    + xd_mat_size(height, width)
    + yd_mat_size(height, width)
    + indices_size(height, width) * 3

\* What lines 58-67 subtract from available_memory.
subtracted(height, width, dtype) ==
    lists_size(height, width)
    + meshgrid_size(height, width)
    + ru_mat_size(height, width)
    + fact_mat_size(height, width) * 2
    + xd_mat_size(height, width)
    + yd_mat_size(height, width)
    + processing_size(height, width, dtype)
    + indices_size(height, width) * 3

\* Mutant: nothing is subtracted before the division.
max_slices_no_overhead(height, width, dtype, available_memory) ==
    available_memory \div slice_size(height, width, dtype)

\* The first component of the returned tuple: Python's // floors, as \div does.
max_slices(height, width, dtype, available_memory) ==
    (available_memory - subtracted(height, width, dtype))
        \div slice_size(height, width, dtype)

EstIdle == [pc |-> "idle", height |-> 1, width |-> 1, dtype |-> "float32",
            available |-> 0, slices |-> 0, out_dtype |-> "float32",
            out_shape |-> <<1, 1>>]

EstInit ==
    \E h \in 1..MaxDim, w \in 1..MaxDim, d \in Dtypes, a \in 0..MaxAvail :
        est = [pc |-> "call", height |-> h, width |-> w, dtype |-> d,
               available |-> a, slices |-> 0, out_dtype |-> d,
               out_shape |-> <<h, w>>]

CalcMaxSlices ==
    /\ est.pc = "call"
    /\ est' = [est EXCEPT
                 !.pc = "done",
                 !.slices = max_slices(est.height, est.width, est.dtype,
                                       est.available),
                 !.out_dtype = est.dtype,
                 !.out_shape = <<est.height, est.width>>]
    /\ UNCHANGED <<load, med, dist>>

\* ---- claims about the estimator ----

\* The fixed-size temporaries as spec section 4.1 lists them: two coordinate
\* lists, the mesh pair, the radius matrix, the polynomial-sum matrix, two
\* float32 mapped-coordinate matrices and 3x the stacked index buffer.
ListedTemporaries(h, w) ==
    (h + w) * 8 + 2 * h * w * 8 + h * w * 8 + h * w * 8
    + h * w * 4 + h * w * 4 + 3 * (2 * h * w * 4)

\* Everything the code reserves before dividing: the listed temporaries, the
\* polynomial-sum matrix a second time and four slices of loop temporaries.
ReservedBytes(h, w, itemsize) ==
    ListedTemporaries(h, w) + h * w * 8 + 4 * (h * w * itemsize)

\* C1 as stated: with the per-slice cost H*W*itemsize*4 of section 4.1,
\* per-slice cost x max_slices + the fixed temporaries <= available_bytes.
C1_Original ==
    est.pc = "done" =>
        (est.height * est.width * Itemsize(est.dtype) * 4) * est.slices
            + ListedTemporaries(est.height, est.width) <= est.available

\* C1 amended: the bytes of the slices themselves (H*W*itemsize each) times
\* max_slices, plus everything the estimator reserves (the listed temporaries,
\* a second polynomial-sum matrix and four slices of loop temporaries), never
\* exceed available_bytes.
C1_WithinBudget ==
    est.pc = "done" =>
        (est.height * est.width * Itemsize(est.dtype)) * est.slices
            + ReservedBytes(est.height, est.width, Itemsize(est.dtype))
          <= est.available

C1_Witness ==
    /\ est.pc = "done"
    /\ est.slices >= 2
    /\ est.height > 1 /\ est.width > 1

\* C2 as stated: max_slices = floor((available - listed temporaries) /
\* (H*W*itemsize*4)).
C2_Original ==
    est.pc = "done" =>
        est.slices =
            (est.available - ListedTemporaries(est.height, est.width))
                \div (est.height * est.width * Itemsize(est.dtype) * 4)

\* C2 amended: max_slices = floor(remaining / (H*W*itemsize)), where
\* remaining is available_bytes minus the listed temporaries, minus a second
\* polynomial-sum matrix (H*W*8), minus 4*H*W*itemsize of loop temporaries; the
\* divisor is one slice, and the factor 4 is part of what is subtracted.
C2_Formula ==
    est.pc = "done" =>
        /\ est.slices =
              (est.available
                 - ReservedBytes(est.height, est.width, Itemsize(est.dtype)))
                  \div (est.height * est.width * Itemsize(est.dtype))
        /\ est.out_dtype = est.dtype
        /\ est.out_shape = <<est.height, est.width>>

C2_Witness ==
    /\ est.pc = "done"
    /\ est.slices >= 1
    /\ (est.available
          - ReservedBytes(est.height, est.width, Itemsize(est.dtype)))
         % (est.height * est.width * Itemsize(est.dtype)) /= 0

\* C3: the estimator never returns a negative slice count.
C3_NonNegative ==
    est.pc = "done" => est.slices >= 0

(***************************************************************************)
(* alignment.py: _load_metadata_txt                                        *)
(***************************************************************************)

\* A file has at most MaxLines lines.
MaxLines == 4

Digits == {"0", "1", "2", "3", "4", "5", "6", "7", "8", "9"}

DigitVal(c) ==
    CASE c = "0" -> 0 [] c = "1" -> 1 [] c = "2" -> 2 [] c = "3" -> 3
      [] c = "4" -> 4 [] c = "5" -> 5 [] c = "6" -> 6 [] c = "7" -> 7
      [] c = "8" -> 8 [] c = "9" -> 9

IsSpace(c) == c = " "

\* The lines a file is built from, as sequences of characters:
\*   "xc 12.5"  "yc 7.25"  "f0 1.0"  "f1 0.0002"  ""  " "  "1 x"  " -3 "
\*   "1.2.3"
LineChoices ==
    { <<"x", "c", " ", "1", "2", ".", "5">>,
      <<"y", "c", " ", "7", ".", "2", "5">>,
      <<"f", "0", " ", "1", ".", "0">>,
      <<"f", "1", " ", "0", ".", "0", "0", "0", "2">>,
      << >>,
      <<" ">>,
      <<"1", " ", "x">>,
      <<" ", "-", "3", " ">>,
      <<"1", ".", "2", ".", "3">> }

\* str.split(): the maximal runs of non-whitespace characters, in order.
RECURSIVE SplitFrom(_, _, _)
SplitFrom(line, i, cur) ==
    IF i > Len(line)
    THEN IF cur = << >> THEN << >> ELSE <<cur>>
    ELSE IF IsSpace(line[i])
         THEN IF cur = << >>
              THEN SplitFrom(line, i + 1, << >>)
              ELSE <<cur>> \o SplitFrom(line, i + 1, << >>)
         ELSE SplitFrom(line, i + 1, Append(cur, line[i]))

split(line) == SplitFrom(line, 1, << >>)

RECURSIVE DigitsValue(_)
DigitsValue(s) ==
    IF s = << >> THEN 0
    ELSE 10 * DigitsValue(SubSeq(s, 1, Len(s) - 1)) + DigitVal(s[Len(s)])

RECURSIVE Normalise(_, _)
Normalise(m, e) ==
    IF e > 0 /\ m % 10 = 0 THEN Normalise(m \div 10, e - 1)
    ELSE [m |-> m, e |-> e]

\* float(token) on the tokens the character set above can spell: an optional
\* sign, digits with at most one point, at least one digit.  NotANumber is
\* Python's ValueError.
NotANumber == [m |-> 0, e |-> -1]

float(token) ==
    LET signed == token /= << >> /\ token[1] \in {"-", "+"}
        body == IF signed THEN SubSeq(token, 2, Len(token)) ELSE token
        points == {i \in 1..Len(body) : body[i] = "."}
        p == IF points = {} THEN Len(body) + 1
             ELSE CHOOSE i \in points : \A j \in points : i <= j
        int == SubSeq(body, 1, p - 1)
        frac == SubSeq(body, p + 1, Len(body))
        wellformed ==
            /\ Cardinality(points) <= 1
            /\ \A i \in 1..Len(int) : int[i] \in Digits
            /\ \A i \in 1..Len(frac) : frac[i] \in Digits
            /\ Len(int) + Len(frac) >= 1
        mag == Normalise(DigitsValue(int \o frac), Len(frac))
    IN IF ~wellformed THEN NotANumber
       ELSE IF signed /\ token[1] = "-"
            THEN [m |-> -mag.m, e |-> mag.e]
            ELSE mag

NoValue(kind) == [err |-> kind, val |-> NotANumber]

\* Mutant: the first token of the line is parsed, not the last.
line_value_first_token(line) ==
    LET toks == split(line)
    IN IF toks = << >> THEN NoValue("IndexError")
       ELSE IF float(toks[1]) = NotANumber THEN NoValue("ValueError")
       ELSE [err |-> "none", val |-> float(toks[1])]

\* float(i.split()[-1]) of line 334: the value, or the exception raised.
line_value(line) ==
    LET toks == split(line)
    IN IF toks = << >> THEN NoValue("IndexError")
       ELSE IF float(toks[Len(toks)]) = NotANumber THEN NoValue("ValueError")
       ELSE [err |-> "none", val |-> float(toks[Len(toks)])]

\* The loop of lines 333-334: list_data, or the first exception raised.
RECURSIVE list_data(_)
list_data(lines) ==
    IF lines = << >> THEN [err |-> "none", vals |-> << >>]
    ELSE LET rest == list_data(SubSeq(lines, 1, Len(lines) - 1))
             v == line_value(lines[Len(lines)])
         IN IF rest.err /= "none" THEN rest
            ELSE IF v.err /= "none" THEN [err |-> v.err, vals |-> << >>]
            ELSE [err |-> "none", vals |-> Append(rest.vals, v.val)]

Failure(kind) == [status |-> kind, xcenter |-> NotANumber,
                  ycenter |-> NotANumber, list_fact |-> << >>]

\* _load_metadata_txt of a path that is a string: lines are the file's lines,
\* exists says whether open() finds the file.
load_metadata_txt(exists, lines) ==
    IF ~exists THEN Failure("FileNotFoundError")
    ELSE LET data == list_data(lines)
         IN IF data.err /= "none" THEN Failure(data.err)
            ELSE IF Len(data.vals) < 2 THEN Failure("IndexError")
            ELSE [status |-> "ok", xcenter |-> data.vals[1],
                  ycenter |-> data.vals[2],
                  list_fact |-> SubSeq(data.vals, 3, Len(data.vals))]

Files == UNION {[1..n -> LineChoices] : n \in 0..MaxLines}

LoadIdle == [pc |-> "idle", exists |-> FALSE, lines |-> << >>,
             result |-> Failure("none")]

LoadInit ==
    \E ex \in BOOLEAN, f \in Files :
        /\ (~ex => f = << >>)
        /\ load = [pc |-> "call", exists |-> ex, lines |-> f,
                   result |-> Failure("none")]

LoadMetadataTxt ==
    /\ load.pc = "call"
    /\ load' = [load EXCEPT !.pc = "done",
                            !.result = load_metadata_txt(load.exists, load.lines)]
    /\ UNCHANGED <<est, med, dist>>

\* ---- claims about the loader ----

\* What each line of LineChoices says, read by eye: the decimal its last
\* whitespace-separated token spells, or NotANumber when the line is empty,
\* blank, or ends in a token that is no number.
Spelled(line) ==
    CASE line = <<"x", "c", " ", "1", "2", ".", "5">> -> [m |-> 125, e |-> 1]
      [] line = <<"y", "c", " ", "7", ".", "2", "5">> -> [m |-> 725, e |-> 2]
      [] line = <<"f", "0", " ", "1", ".", "0">> -> [m |-> 1, e |-> 0]
      [] line = <<"f", "1", " ", "0", ".", "0", "0", "0", "2">> -> [m |-> 2, e |-> 4]
      [] line = <<" ", "-", "3", " ">> -> [m |-> -3, e |-> 0]
      [] OTHER -> NotANumber

\* C10: a file of n >= 2 lines, each ending in a numeric token, loads as
\* (value of line 0, value of line 1, values of lines 2..n-1 in file order),
\* whatever label text leads the lines; the load fails when the file does not
\* exist, a line is empty or ends in a non-numeric token, or there are fewer
\* than 2 lines.
C10_Loader ==
    load.pc = "done" =>
        LET n == Len(load.lines)
            wellformed ==
                /\ load.exists
                /\ n >= 2
                /\ \A i \in 1..n : Spelled(load.lines[i]) /= NotANumber
        IN IF wellformed
           THEN /\ load.result.status = "ok"
                /\ load.result.xcenter = Spelled(load.lines[1])
                /\ load.result.ycenter = Spelled(load.lines[2])
                /\ load.result.list_fact =
                       [i \in 1..(n - 2) |-> Spelled(load.lines[i + 2])]
           ELSE load.result.status \in
                    {"FileNotFoundError", "IndexError", "ValueError"}

\* The file of spec section 8 has been loaded.
C10_Witness ==
    /\ load.pc = "done"
    /\ load.lines = << <<"x", "c", " ", "1", "2", ".", "5">>,
                       <<"y", "c", " ", "7", ".", "2", "5">>,
                       <<"f", "0", " ", "1", ".", "0">>,
                       <<"f", "1", " ", "0", ".", "0", "0", "0", "2">> >>
    /\ load.result = [status |-> "ok",
                      xcenter |-> [m |-> 125, e |-> 1],
                      ycenter |-> [m |-> 725, e |-> 2],
                      list_fact |-> << [m |-> 1, e |-> 0], [m |-> 2, e |-> 4] >>]

(***************************************************************************)
(* corr.py: median_filter3d, remove_outlier3d                              *)
(*                                                                         *)
(* dif is kept in tenths (DifScale), voxel values are whole numbers; the   *)
(* CUDA routine median_general_kernel is not part of corr.py and is        *)
(* modelled from spec section 4.3.                                         *)
(***************************************************************************)

DifScale == 10

\* The defaults of the two signatures (lines 43 and 108), dif in tenths.
DefaultKernelSize == 3
MedianDefaultDif == 0
OutlierDefaultDif == 1

\* Line 79.
ValidKernelSizes == {3, 5, 7, 9, 11, 13}

\* Line 92.
block_x == 128

\* The arguments a call is made with.
MedDtypeChoices == {"float32", "uint16", "float64"}
MedShapeChoices == {<<2, 2>>, <<1, 2, 2, 1>>, <<2, 0, 2>>, <<1, 1, 3>>, <<2, 2, 2>>}
KernelSizeChoices == ValidKernelSizes \cup {1, 4, 15}
DifChoices == {-10, 0, 1, 10, 20}
PatternChoices == {"ramp", "spike"}

\* The index tuples of an array of the given shape.
RECURSIVE Indices(_)
Indices(shape) ==
    IF shape = << >> THEN {<< >>}
    ELSE {Append(idx, last) :
            idx \in Indices(SubSeq(shape, 1, Len(shape) - 1)),
            last \in 0..(shape[Len(shape)] - 1)}

\* The position of an index tuple in C order.
RECURSIVE Linear(_, _)
Linear(shape, idx) ==
    IF shape = << >> THEN 0
    ELSE Linear(SubSeq(shape, 1, Len(shape) - 1), SubSeq(idx, 1, Len(idx) - 1))
             * shape[Len(shape)] + idx[Len(idx)]

\* The input volumes, by position n in C order: a ramp, and a flat volume
\* with one spike.
PatternValue(pattern, n) ==
    IF pattern = "ramp" THEN n
    ELSE IF n = 1 THEN 6 ELSE n % 2

Volume(pattern, shape) ==
    [idx \in Indices(shape) |-> PatternValue(pattern, Linear(shape, idx))]

NoError == "none"

\* Mutant: the kernel size is checked before the element type and the shape.
validate_kernel_size_first(dtype, shape, kernel_size) ==
    IF kernel_size \notin ValidKernelSizes
    THEN "Please select a correct kernel size: 3, 5, 7, 9, 11, 13"
    ELSE IF dtype \notin {"float32", "uint16"}
    THEN "The input data should be either float32 or uint16 data type"
    ELSE IF Len(shape) = 3
    THEN IF \E i \in 1..3 : shape[i] = 0
         THEN "The length of one of dimensions is equal to zero"
         ELSE NoError
    ELSE "The input array must be a 3D array"

\* Lines 68-80: the message of the ValueError raised, or NoError.
validate(dtype, shape, kernel_size) ==
    IF dtype \notin {"float32", "uint16"}
    THEN "The input data should be either float32 or uint16 data type"
    ELSE IF Len(shape) = 3
    THEN IF \E i \in 1..3 : shape[i] = 0
         THEN "The length of one of dimensions is equal to zero"
         ELSE IF kernel_size \notin ValidKernelSizes
              THEN "Please select a correct kernel size: 3, 5, 7, 9, 11, 13"
              ELSE NoError
    ELSE "The input array must be a 3D array"

\* Lines 82-84: the name expression of the kernel variant.
kernel_args(dtype, kernel_size) ==
    [ctype |-> IF dtype = "float32" THEN "float" ELSE "unsigned short",
     size |-> kernel_size]

NoKernel == [ctype |-> "", size |-> 0]

\* Lines 92-97.
\* A variant that rounds the number of blocks along x down.
grid_dims_rounded_down(shape) ==
    <<shape[3] \div block_x, shape[2], shape[1]>>

grid_dims(shape) ==
    <<(shape[3] + block_x - 1) \div block_x, shape[2], shape[1]>>

block_dims == <<block_x, 1, 1>>

\* cp.empty: the buffer holds whatever the memory held.
Uninitialised == -1

Clamp(i, n) == IF i < 0 THEN 0 ELSE IF i >= n THEN n - 1 ELSE i

\* The kernel_size^3 values one thread gathers around voxel (z, y, x), by
\* offset, with indices clamped to the volume.
Neighbourhood(data, shape, size, z, y, x) ==
    LET r == size \div 2
    IN [o \in (-r..r) \X (-r..r) \X (-r..r) |->
           data[<<Clamp(z + o[1], shape[1]), Clamp(y + o[2], shape[2]),
                  Clamp(x + o[3], shape[3])>>]]

\* The middle element of the sorted neighbourhood: the value with at most
\* size^3 \div 2 values below it and more than that many not above it.
MiddleOfSorted(nb) ==
    LET mid == Cardinality(DOMAIN nb) \div 2
        vals == {nb[o] : o \in DOMAIN nb}
    IN CHOOSE m \in vals :
           /\ Cardinality({o \in DOMAIN nb : nb[o] < m}) <= mid
           /\ Cardinality({o \in DOMAIN nb : nb[o] <= m}) > mid

\* What the thread of voxel (z, y, x) writes to the output.
median_general_kernel(data, shape, size, dif, z, y, x) ==
    LET m == MiddleOfSorted(Neighbourhood(data, shape, size, z, y, x))
        v == data[<<z, y, x>>]
    IN IF dif <= 0 THEN m
       ELSE IF Abs(v - m) * DifScale > dif THEN m
       ELSE v

\* Whether a thread of the launch has voxel (z, y, x): blockIdx.z = z,
\* blockIdx.y = y, blockIdx.x * blockDim.x + threadIdx.x = x.
Covered(grid, block, z, y, x) ==
    /\ z < grid[3]
    /\ y < grid[2]
    /\ \E bx \in 0..(grid[1] - 1) : \E tx \in 0..(block[1] - 1) :
           bx * block[1] + tx = x

\* Line 101: the output buffer after the launch.
launch(grid, block, data, out, shape, size, dif) ==
    [idx \in DOMAIN out |->
        IF Covered(grid, block, idx[1], idx[2], idx[3])
        THEN median_general_kernel(data, shape, size, dif,
                                   idx[1], idx[2], idx[3])
        ELSE out[idx]]

\* Mutant: remove_outlier3d calls median_filter3d without passing dif on.
forwarded_dif_dropped(dif_given, dif) == MedianDefaultDif

\* Line 133 with the default of line 108: the dif remove_outlier3d passes on.
forwarded_dif(dif_given, dif) == IF dif_given THEN dif ELSE OutlierDefaultDif

\* The buffers a call can hold: the one the caller passed in, one the call
\* allocated itself, or none.
CallerBuffer == "caller"
OwnBuffer == "own"
NoBuffer == "none"

MedIdle ==
    [pc |-> "idle", entry |-> "median_filter3d", dtype |-> "float32",
     shape |-> <<1, 1, 1>>, input |-> Volume("ramp", <<1, 1, 1>>),
     data |-> Volume("ramp", <<1, 1, 1>>), buffer |-> CallerBuffer,
     ks_given |-> FALSE, ks_arg |-> 0, dif_given |-> FALSE, dif_arg |-> 0,
     kernel_size |-> 0, dif |-> 0, error |-> NoError, kernel |-> NoKernel,
     allocated |-> FALSE, launched |-> FALSE, grid |-> <<0, 0, 0>>,
     block |-> <<0, 0, 0>>, out |-> << >>, out_buffer |-> NoBuffer,
     returned_buffer |-> NoBuffer]

MedInit ==
    \E entry \in {"median_filter3d", "remove_outlier3d"},
       dtype \in MedDtypeChoices, shape \in MedShapeChoices,
       pattern \in PatternChoices,
       ksg \in BOOLEAN, ks \in KernelSizeChoices,
       dg \in BOOLEAN, d \in DifChoices :
        /\ (~ksg => ks = DefaultKernelSize)
        /\ (~dg => d = 0)
        /\ med = [MedIdle EXCEPT
                    !.pc = entry, !.entry = entry, !.dtype = dtype,
                    !.shape = shape, !.input = Volume(pattern, shape),
                    !.data = Volume(pattern, shape),
                    !.ks_given = ksg, !.ks_arg = ks,
                    !.dif_given = dg, !.dif_arg = d]

\* Volumes whose rows are around one and two blocks wide.
MaxRows == 2
WideShapeChoices ==
    {<<dz, dy, dx>> : dz \in 1..MaxRows, dy \in 1..MaxRows,
                      dx \in {1, block_x - 1, block_x, block_x + 1,
                               2 * block_x}}

\* Calls on wide volumes, with the default kernel size and dif.
MedWideInit ==
    \E entry \in {"median_filter3d", "remove_outlier3d"},
       dtype \in {"float32", "float64"}, shape \in WideShapeChoices :
        med = [MedIdle EXCEPT
                 !.pc = entry, !.entry = entry, !.dtype = dtype,
                 !.shape = shape, !.input = Volume("spike", shape),
                 !.data = Volume("spike", shape),
                 !.ks_arg = DefaultKernelSize]

\* remove_outlier3d, line 133: the call of median_filter3d.
RemoveOutlier3d ==
    /\ med.pc = "remove_outlier3d"
    /\ med' = [med EXCEPT
                 !.pc = "validate",
                 !.kernel_size = IF med.ks_given THEN med.ks_arg
                                 ELSE DefaultKernelSize,
                 !.dif = forwarded_dif(med.dif_given, med.dif_arg)]
    /\ UNCHANGED <<est, load, dist>>

\* median_filter3d called directly: its parameters are bound.
MedianFilter3d ==
    /\ med.pc = "median_filter3d"
    /\ med' = [med EXCEPT
                 !.pc = "validate",
                 !.kernel_size = IF med.ks_given THEN med.ks_arg
                                 ELSE DefaultKernelSize,
                 !.dif = IF med.dif_given THEN med.dif_arg
                         ELSE MedianDefaultDif]
    /\ UNCHANGED <<est, load, dist>>

\* Lines 68-80.
MedValidate ==
    /\ med.pc = "validate"
    /\ LET e == validate(med.dtype, med.shape, med.kernel_size)
       IN med' = [med EXCEPT !.error = e,
                             !.pc = IF e = NoError THEN "select" ELSE "raised"]
    /\ UNCHANGED <<est, load, dist>>

\* Lines 82-86.
MedSelectKernel ==
    /\ med.pc = "select"
    /\ med' = [med EXCEPT !.kernel = kernel_args(med.dtype, med.kernel_size),
                          !.pc = "alloc"]
    /\ UNCHANGED <<est, load, dist>>

\* Line 88.
MedAllocOut ==
    /\ med.pc = "alloc"
    /\ med' = [med EXCEPT
                 !.out = [idx \in Indices(med.shape) |-> Uninitialised],
                 !.out_buffer = OwnBuffer,
                 !.allocated = TRUE,
                 !.pc = "launch"]
    /\ UNCHANGED <<est, load, dist>>

\* Lines 90-103.
\* A variant that filters into the caller's array and returns it.
MedLaunchInPlace ==
    /\ med.pc = "launch"
    /\ med' = [med EXCEPT
                 !.grid = grid_dims(med.shape),
                 !.block = block_dims,
                 !.data = launch(grid_dims(med.shape), block_dims, med.data,
                                 med.data, med.shape, med.kernel.size, med.dif),
                 !.launched = TRUE,
                 !.returned_buffer = med.buffer,
                 !.pc = "returned"]
    /\ UNCHANGED <<est, load, dist>>

MedLaunch ==
    /\ med.pc = "launch"
    /\ med' = [med EXCEPT
                 !.grid = grid_dims(med.shape),
                 !.block = block_dims,
                 !.out = launch(grid_dims(med.shape), block_dims, med.data,
                                med.out, med.shape, med.kernel.size, med.dif),
                 !.launched = TRUE,
                 !.returned_buffer = med.out_buffer,
                 !.pc = "returned"]
    /\ UNCHANGED <<est, load, dist>>

\* ---- claims about the median filter ----

\* The arguments the call was made with, defaults filled in.
CalledKernelSize == IF med.ks_given THEN med.ks_arg ELSE 3

\* The first check of the stated order that the call's arguments violate.
FirstViolatedCheck ==
    IF med.dtype \notin {"float32", "uint16"} THEN "element type"
    ELSE IF Len(med.shape) /= 3 \/ \E i \in 1..Len(med.shape) : med.shape[i] = 0
    THEN "shape"
    ELSE IF CalledKernelSize \notin {3, 5, 7, 9, 11, 13} THEN "kernel size"
    ELSE "none"

\* The check an error message reports.
ReportedCheck(message) ==
    CASE message = "The input data should be either float32 or uint16 data type"
             -> "element type"
      [] message = "The length of one of dimensions is equal to zero" -> "shape"
      [] message = "The input array must be a 3D array" -> "shape"
      [] message = "Please select a correct kernel size: 3, 5, 7, 9, 11, 13"
             -> "kernel size"
      [] OTHER -> "none"

\* C8: median_filter3d checks the element type, then the shape (3 axes, none
\* of length zero), then the kernel size, and reports the first check that
\* fails; a failure comes before the kernel is selected, the output is
\* allocated or the kernel is launched, and a call that passes all three
\* checks is not failed and returns only after the launch.
C8_ValidationOrder ==
    /\ med.pc = "raised" =>
          /\ FirstViolatedCheck /= "none"
          /\ ReportedCheck(med.error) = FirstViolatedCheck
          /\ med.kernel = NoKernel /\ ~med.allocated /\ ~med.launched
    /\ (med.kernel /= NoKernel \/ med.allocated \/ med.launched) =>
          FirstViolatedCheck = "none"
    /\ med.pc \in {"select", "alloc", "launch", "returned"} =>
          FirstViolatedCheck = "none" /\ med.error = NoError
    /\ med.pc = "returned" =>
          med.kernel /= NoKernel /\ med.allocated /\ med.launched

\* A 4-axis uint16 volume with kernel size 4: the shape is what is reported.
C8_Witness ==
    /\ med.pc = "raised"
    /\ med.dtype = "uint16"
    /\ Len(med.shape) = 4
    /\ med.kernel_size = 4
    /\ med.error = "The input array must be a 3D array"

\* How many of the offsets -r..r take index c of an axis of length n to j.
AxisCount(c, j, n, r) ==
    Cardinality({d \in (-r)..r :
                   (IF c + d < 0 THEN 0 ELSE IF c + d > n - 1 THEN n - 1 ELSE c + d) = j})

RECURSIVE SumOver(_, _)
SumOver(S, w) ==
    IF S = {} THEN 0
    ELSE LET u == CHOOSE u \in S : TRUE
         IN w[u] + SumOver(S \ {u}, w)

\* How often each voxel occurs in the size^3 neighbourhood of voxel v.
Occurrences(v, size) ==
    [u \in DOMAIN med.data |->
        AxisCount(v[1], u[1], med.shape[1], size \div 2)
        * AxisCount(v[2], u[2], med.shape[2], size \div 2)
        * AxisCount(v[3], u[3], med.shape[3], size \div 2)]

\* m is the median of the neighbourhood of v: it occurs there, and more than
\* half of the size^3 values are <= m, and more than half are >= m.
IsMedianAt(m, v, size) ==
    LET occ == Occurrences(v, size)
    IN /\ \E u \in DOMAIN med.data : occ[u] > 0 /\ med.data[u] = m
       /\ 2 * SumOver({u \in DOMAIN med.data : med.data[u] <= m}, occ)
              > size * size * size
       /\ 2 * SumOver({u \in DOMAIN med.data : med.data[u] >= m}, occ)
              > size * size * size

\* The dif the call asks for, in tenths: 0.1 is remove_outlier3d's default,
\* 0.0 is median_filter3d's.
CalledDif ==
    IF med.dif_given THEN med.dif_arg
    ELSE IF med.entry = "remove_outlier3d" THEN 1 ELSE 0

\* C9: every output voxel is the median of its kernel_size^3 neighbourhood
\* when dif <= 0; when dif > 0 it is the median if |input - median| > dif and
\* the input value otherwise; remove_outlier3d is the same operation with
\* default dif 0.1, and passes data, kernel_size and dif on unchanged.
C9_MedianDezinger ==
    med.pc = "returned" =>
        /\ med.kernel_size = CalledKernelSize
        /\ med.dif = CalledDif
        /\ DOMAIN med.out = DOMAIN med.data
        /\ \A v \in DOMAIN med.data :
              \E m \in {med.data[u] : u \in DOMAIN med.data} :
                  /\ IsMedianAt(m, v, CalledKernelSize)
                  /\ med.out[v] =
                        IF CalledDif <= 0 THEN m
                        ELSE IF 10 * Abs(med.data[v] - m) > CalledDif THEN m
                        ELSE med.data[v]

\* remove_outlier3d with dif = 1.0 has returned; one voxel differs from its
\* median by exactly 1.0 and is kept, another was replaced.
C9_Witness ==
    /\ med.pc = "returned"
    /\ med.entry = "remove_outlier3d"
    /\ med.dif_given /\ med.dif_arg = 10
    /\ \E v \in DOMAIN med.data :
          \E m \in {med.data[u] : u \in DOMAIN med.data} :
              /\ IsMedianAt(m, v, CalledKernelSize)
              /\ Abs(med.data[v] - m) = 1
              /\ med.out[v] = med.data[v]
    /\ \E v \in DOMAIN med.data : med.out[v] /= med.data[v]

\* remove_outlier3d called without dif: 0.1 is used, and a voxel is replaced.
C9_DefaultDifWitness ==
    /\ med.pc = "returned"
    /\ med.entry = "remove_outlier3d"
    /\ ~med.dif_given
    /\ med.dif = 1
    /\ \E v \in DOMAIN med.data : med.out[v] /= med.data[v]

(***************************************************************************)
(* alignment.py: distortion_correction_proj (variant A) and                *)
(* distortion_correction_proj_discorpy (variant B)                         *)
(*                                                                         *)
(* Fixed point.  Centers are kept in halves of a pixel (CenterScale),      *)
(* source coordinates in eighths (CoordScale = 4 * CenterScale), voxel     *)
(* values in 64ths (ValueScale = CoordScale^2), so that order-1            *)
(* interpolation is exact.  The element type is float32.  The distortion   *)
(* models have whole-number coefficients and no odd power of the radius,   *)
(* so that no square root is left in the factor.                            *)
(***************************************************************************)

\* Bounds of the volumes.
MaxSlices == 2
MaxSide == 3

CenterScale == 2
CoordScale == 8
ValueScale == 64

\* Lines 136-137 and 268-269.
x_dim == 1
y_dim == 0

\* The files of the run, by path.  A path that is no key of a file here does
\* not exist.
\*   identity.txt  "xc 1" "yc 0.5" "f0 1"
\*   barrel.txt    "xc 1" "yc 1" "f0 1" "f1 0" "f2 1"
\*   collapse.txt  "xc 0" "yc 0" "f0 0"
\*   garbage.txt   "xc 1" "1 x"
\*   locked.txt    exists, and open() is refused
FileLines(path) ==
    CASE path = "identity.txt" ->
            << <<"x", "c", " ", "1">>, <<"y", "c", " ", "0", ".", "5">>,
               <<"f", "0", " ", "1">> >>
      [] path = "barrel.txt" ->
            << <<"x", "c", " ", "1">>, <<"y", "c", " ", "1">>,
               <<"f", "0", " ", "1">>, <<"f", "1", " ", "0">>,
               <<"f", "2", " ", "1">> >>
      [] path = "collapse.txt" ->
            << <<"x", "c", " ", "0">>, <<"y", "c", " ", "0">>,
               <<"f", "0", " ", "0">> >>
      [] path = "garbage.txt" ->
            << <<"x", "c", " ", "1">>, <<"1", " ", "x">> >>
      [] OTHER -> << >>

None == "None"
ExistingPaths ==
    {"identity.txt", "barrel.txt", "collapse.txt", "garbage.txt", "locked.txt"}
ReadablePaths == ExistingPaths \ {"locked.txt"}
PathChoices == ExistingPaths \cup {"missing.txt", None}

\* os.path.isfile
isfile(path) == path \in ExistingPaths

\* _load_metadata_txt(metadata_path) as the correctors call it: open(None)
\* is a TypeError, a missing file a FileNotFoundError, a refused one a
\* PermissionError; both of the latter are IOError (OSError).
load_path(path) ==
    IF path = None THEN Failure("TypeError")
    ELSE IF path \notin ExistingPaths THEN Failure("FileNotFoundError")
    ELSE IF path \notin ReadablePaths THEN Failure("PermissionError")
    ELSE load_metadata_txt(TRUE, FileLines(path))

IsIOError(kind) == kind \in {"FileNotFoundError", "PermissionError"}

RECURSIVE Pow10(_)
Pow10(e) == IF e = 0 THEN 1 ELSE 10 * Pow10(e - 1)

\* A decimal as a whole number of 1/scale.
Scaled(v, scale) == (v.m * scale) \div Pow10(v.e)

Decimal(m, e) == [m |-> m, e |-> e]

\* An exception: its type, its message (shortened) and its __cause__.
Raised(type, msg, cause) == [type |-> type, msg |-> msg, cause |-> cause]
NoException == Raised("none", "", "none")

StepMessage == "Method doesn't work with the step in the preview larger than 1"
NoSuchFileMessage == "No such file"
CantOpenMessage == "Can't open this file"
PreviewMessage == "You need to increase the preview size for this plugin to work"
BroadcastMessage == "could not broadcast input array"

\* Lines 138 and 270.
step_check(step) ==
    Max2(step[x_dim + 1], step[y_dim + 1]) > 1

\* Lines 178-181, for the pixel (y, x): xu and yu in halves, ru^2 in quarters.
xu(x, x_center) == CenterScale * x - x_center
yu(y, y_center) == CenterScale * y - y_center
ru_squared(y, x, x_center, y_center) ==
    xu(x, x_center) * xu(x, x_center) + yu(y, y_center) * yu(y, y_center)

\* factor * ru**i in quarters, for the powers the models use: an odd power
\* has factor 0.
term(i, factor, rr) ==
    CASE i = 0 -> 4 * factor
      [] i = 2 -> factor * rr
      [] OTHER -> 0

\* Lines 182-184: the sum over enumerate(list_fact), in quarters.
RECURSIVE fact_mat(_, _)
fact_mat(list_fact, rr) ==
    IF list_fact = << >> THEN 0
    ELSE fact_mat(SubSeq(list_fact, 1, Len(list_fact) - 1), rr)
         + term(Len(list_fact) - 1, list_fact[Len(list_fact)], rr)

\* cp.clip
clip(v, lo, hi) == IF v < lo THEN lo ELSE IF v > hi THEN hi ELSE v

\* Lines 185-190: the source coordinates of pixel (y, x), in eighths.
\* A variant that leaves the centre out of the sum.
xd_mat_without_center(y, x, width, x_center, y_center, list_fact) ==
    clip(fact_mat(list_fact, ru_squared(y, x, x_center, y_center))
           * xu(x, x_center),
         0, CoordScale * (width - 1))

xd_mat(y, x, width, x_center, y_center, list_fact) ==
    clip(4 * x_center
           + fact_mat(list_fact, ru_squared(y, x, x_center, y_center))
             * xu(x, x_center),
         0, CoordScale * (width - 1))

yd_mat(y, x, height, x_center, y_center, list_fact) ==
    clip(4 * y_center
           + fact_mat(list_fact, ru_squared(y, x, x_center, y_center))
             * yu(y, y_center),
         0, CoordScale * (height - 1))

Pixels(height, width) == (0..(height - 1)) \X (0..(width - 1))

\* Lines 202-203: indices[0] is yd, indices[1] is xd, by pixel.
indices(height, width, x_center, y_center, list_fact) ==
    [p \in Pixels(height, width) |->
        <<yd_mat(p[1], p[2], height, x_center, y_center, list_fact),
          xd_mat(p[1], p[2], width, x_center, y_center, list_fact)>>]

SetMax(S) == CHOOSE m \in S : \A n \in S : n <= m
SetMin(S) == CHOOSE m \in S : \A n \in S : m <= n

\* Line 192, in eighths.
diff_y(ind) ==
    SetMax({ind[p][1] : p \in DOMAIN ind}) - SetMin({ind[p][1] : p \in DOMAIN ind})

\* map_coordinates(slice, indices, order=1) at one coordinate pair inside the
\* image: the two rows and columns around it, weighted by distance.  At the
\* last row or column the neighbour beyond the edge has weight 0.
interpolate(slice, height, width, c) ==
    LET y0 == c[1] \div CoordScale
        x0 == c[2] \div CoordScale
        fy == c[1] % CoordScale
        fx == c[2] % CoordScale
        y1 == Min2(y0 + 1, height - 1)
        x1 == Min2(x0 + 1, width - 1)
    IN ((CoordScale - fy) * (CoordScale - fx) * slice[<<y0, x0>>]
        + (CoordScale - fy) * fx * slice[<<y0, x1>>]
        + fy * (CoordScale - fx) * slice[<<y1, x0>>]
        + fy * fx * slice[<<y1, x1>>]) \div ValueScale

\* Lines 207-209 and 304-305: the resampled slice, (height, width).
map_coordinates(slice, height, width, ind) ==
    [p \in Pixels(height, width) |-> interpolate(slice, height, width, ind[p])]

\* The extent of a[crop : n - crop] for crop >= 0.
cropped_len(n, crop) == Max2(0, n - 2 * crop)

\* Whether an array of shape src can be assigned to one of shape dst.
broadcastable(src, dst) ==
    /\ src[1] \in {1, dst[1]}
    /\ src[2] \in {1, dst[2]}

\* Line 210: data[i] after the assignment of mat[crop:height-crop,
\* crop:width-crop], which is broadcast to (height, width).
assign_cropped(mat, height, width, crop) ==
    LET h == cropped_len(height, crop)
        w == cropped_len(width, crop)
    IN [p \in Pixels(height, width) |->
           mat[<<crop + (IF h = height THEN p[1] ELSE 0),
                 crop + (IF w = width THEN p[2] ELSE 0)>>]]

\* The slice i of a volume.
slice_of(data, i, height, width) ==
    [p \in Pixels(height, width) |-> data[<<i, p[1], p[2]>>]]

\* The volume with slice i replaced.
with_slice(data, i, new) ==
    [idx \in DOMAIN data |->
        IF idx[1] = i THEN new[<<idx[2], idx[3]>>] ELSE data[idx]]

\* The input volumes, in 64ths.
DistVolume(pattern, shape) ==
    [idx \in Indices(shape) |->
        ValueScale * PatternValue(pattern, Linear(shape, idx))]

\* The arguments a call is made with.
StartsChoices == {<<0, 0, 0>>, <<1, 0, 0>>, <<0, 1, 0>>}
StepsChoices == {<<1, 1, 1>>, <<2, 1, 1>>, <<1, 2, 1>>}
CropChoices == {0, 1}
CoeffChoices == {<<Decimal(1, 0)>>, <<Decimal(1, 0), Decimal(0, 0), Decimal(1, 0)>>}
DistShapes ==
    {<<n, h, w>> : n \in 1..MaxSlices, h \in 1..MaxSide, w \in 1..MaxSide}
        \cup {<<1, MaxSide + 1, MaxSide + 1>>}

DistIdle ==
    [pc |-> "idle", variant |-> "A", ndim |-> 3, shape |-> <<1, 1, 1>>,
     input |-> DistVolume("ramp", <<1, 1, 1>>),
     data |-> DistVolume("ramp", <<1, 1, 1>>),
     metadata_path |-> None, starts |-> <<0, 0, 0>>, steps |-> <<1, 1, 1>>,
     given |-> FALSE, center_from_left |-> Decimal(0, 0),
     center_from_top |-> Decimal(0, 0), polynomial_coeffs |-> << >>,
     crop |-> 0, order |-> 1, mode |-> "reflect",
     x_center |-> 0, y_center |-> 0, list_fact |-> << >>,
     indices |-> << >>, i |-> 0, resampled |-> 0, allocated |-> FALSE,
     error |-> NoException, returned |-> << >>,
     buffer |-> CallerBuffer, returned_buffer |-> NoBuffer]

DistInit ==
    \E variant \in {"A", "B"}, shape \in DistShapes, ndim \in {2, 3},
       pattern \in PatternChoices, path \in PathChoices,
       starts \in StartsChoices, steps \in StepsChoices,
       given \in BOOLEAN, coeffs \in CoeffChoices, crop \in CropChoices :
        /\ (ndim = 2 => shape[1] = 1)
        /\ (variant = "B" => ~given /\ crop = 0 /\ path /= None)
        /\ (~given => coeffs = <<Decimal(1, 0)>>)
        /\ dist = [DistIdle EXCEPT
                     !.pc = "load", !.variant = variant, !.ndim = ndim,
                     !.shape = shape,
                     !.input = DistVolume(pattern, shape),
                     !.data = DistVolume(pattern, shape),
                     !.metadata_path = path, !.starts = starts,
                     !.steps = steps, !.given = given,
                     !.center_from_left =
                         IF given THEN Decimal(1, 0) ELSE Decimal(0, 0),
                     !.center_from_top =
                         IF given THEN Decimal(5, 1) ELSE Decimal(0, 0),
                     !.polynomial_coeffs = IF given THEN coeffs ELSE << >>,
                     !.crop = crop]

height == dist.shape[y_dim + 2]
width == dist.shape[x_dim + 2]

Coefficients(list) == [k \in 1..Len(list) |-> Scaled(list[k], 1)]

\* Lines 127-132 (variant A) and 257-262 (variant B): a 2D image becomes a
\* one-slice view of itself, then the metadata file is loaded.
LoadMetadata(variant) ==
    /\ dist.pc = "load"
    /\ dist.variant = variant
    /\ \E r \in {load_path(dist.metadata_path)} :
          dist' =
            IF r.status = "ok"
            THEN [dist EXCEPT !.pc = "step_check", !.ndim = 3,
                              !.x_center = Scaled(r.xcenter, CenterScale),
                              !.y_center = Scaled(r.ycenter, CenterScale),
                              !.list_fact = Coefficients(r.list_fact)]
            ELSE [dist EXCEPT !.pc = "raised", !.ndim = 3,
                              !.error = Raised(r.status, "", "none")]
    /\ UNCHANGED <<est, load, med>>

ProjLoadMetadata == LoadMetadata("A")
DiscorpyLoadMetadata == LoadMetadata("B")

\* Lines 134-146 (variant A) and 266-278 (variant B).
StepCheck(variant) ==
    /\ dist.pc = "step_check"
    /\ dist.variant = variant
    /\ dist' =
         IF step_check(dist.steps)
         THEN [dist EXCEPT !.pc = "raised",
                           !.error = Raised("ValueError", StepMessage, "none")]
         ELSE [dist EXCEPT !.pc = "center"]
    /\ UNCHANGED <<est, load, med>>

ProjStepCheck == StepCheck("A")
DiscorpyStepCheck == StepCheck("B")

\* Lines 148-175.
ProjResolveCenter ==
    /\ dist.pc = "center"
    /\ dist.variant = "A"
    /\ \E x_offset \in {dist.starts[x_dim + 1]},
          y_offset \in {dist.starts[y_dim + 1]},
          r \in {load_path(dist.metadata_path)} :
          dist' =
            IF dist.metadata_path = None
            THEN IF dist.given
                 THEN [dist EXCEPT
                         !.pc = "field",
                         !.allocated = TRUE,
                         !.x_center = Scaled(dist.center_from_left, CenterScale)
                                        - CenterScale * x_offset,
                         !.y_center = Scaled(dist.center_from_top, CenterScale)
                                        - CenterScale * y_offset,
                         !.list_fact = Coefficients(dist.polynomial_coeffs)]
                 ELSE [dist EXCEPT !.pc = "raised",
                                   !.error = Raised("TypeError", "", "none")]
            ELSE IF ~isfile(dist.metadata_path)
            THEN [dist EXCEPT
                    !.pc = "raised", !.x_center = 0, !.y_center = 0,
                    !.error = Raised("ValueError", NoSuchFileMessage, "none")]
            ELSE IF r.status = "ok"
            THEN [dist EXCEPT
                    !.pc = "field",
                    !.x_center = Scaled(r.xcenter, CenterScale)
                                   - CenterScale * x_offset,
                    !.y_center = Scaled(r.ycenter, CenterScale)
                                   - CenterScale * y_offset,
                    !.list_fact = Coefficients(r.list_fact)]
            ELSE IF IsIOError(r.status)
            THEN [dist EXCEPT
                    !.pc = "raised", !.x_center = 0, !.y_center = 0,
                    !.error = Raised("ValueError", CantOpenMessage, r.status)]
            ELSE [dist EXCEPT
                    !.pc = "raised", !.x_center = 0, !.y_center = 0,
                    !.error = Raised(r.status, "", "none")]
    /\ UNCHANGED <<est, load, med>>

\* Lines 280-283.
DiscorpyOffsetCenter ==
    /\ dist.pc = "center"
    /\ dist.variant = "B"
    /\ dist' = [dist EXCEPT
                  !.pc = "field",
                  !.x_center = dist.x_center
                                 - CenterScale * dist.starts[x_dim + 1],
                  !.y_center = dist.y_center
                                 - CenterScale * dist.starts[y_dim + 1]]
    /\ UNCHANGED <<est, load, med>>

\* Lines 177-190: the coordinate matrices, on the accelerator.
ProjBuildField ==
    /\ dist.pc = "field"
    /\ dist.variant = "A"
    /\ dist' = [dist EXCEPT
                  !.pc = "spread",
                  !.allocated = TRUE,
                  !.indices = indices(height, width, dist.x_center,
                                      dist.y_center, dist.list_fact)]
    /\ UNCHANGED <<est, load, med>>

\* Lines 192-203.
ProjCheckSpread ==
    /\ dist.pc = "spread"
    /\ dist.variant = "A"
    /\ dist' =
         IF diff_y(dist.indices) < 1 * CoordScale
         THEN [dist EXCEPT !.pc = "raised",
                           !.error = Raised("ValueError", PreviewMessage, "none")]
         ELSE [dist EXCEPT !.pc = "loop", !.i = 0]
    /\ UNCHANGED <<est, load, med>>

\* Lines 285-300.
DiscorpyBuildField ==
    /\ dist.pc = "field"
    /\ dist.variant = "B"
    /\ dist' = [dist EXCEPT
                  !.pc = "loop",
                  !.i = 0,
                  !.allocated = TRUE,
                  !.indices = indices(height, width, dist.x_center,
                                      dist.y_center, dist.list_fact)]
    /\ UNCHANGED <<est, load, med>>

\* Lines 206-210: one iteration of the loop.
\* A variant that resamples the slice before slice i once there is one.
ProjUnwarpSliceReadsPrevious ==
    /\ dist.pc = "loop"
    /\ dist.variant = "A"
    /\ dist.i < dist.shape[1]
    /\ LET mat_corrected ==
               map_coordinates(slice_of(dist.data, Max2(dist.i - 1, 0),
                                        height, width),
                               height, width, dist.indices)
           src == <<cropped_len(height, dist.crop),
                    cropped_len(width, dist.crop)>>
       IN dist' =
            IF broadcastable(src, <<height, width>>)
            THEN [dist EXCEPT
                    !.data = with_slice(dist.data, dist.i,
                                        assign_cropped(mat_corrected, height,
                                                       width, dist.crop)),
                    !.resampled = dist.resampled + 1,
                    !.i = dist.i + 1]
            ELSE [dist EXCEPT
                    !.pc = "raised",
                    !.resampled = dist.resampled + 1,
                    !.error = Raised("ValueError", BroadcastMessage, "none")]
    /\ UNCHANGED <<est, load, med>>

ProjUnwarpSlice ==
    /\ dist.pc = "loop"
    /\ dist.variant = "A"
    /\ dist.i < dist.shape[1]
    /\ LET mat_corrected ==
               map_coordinates(slice_of(dist.data, dist.i, height, width),
                               height, width, dist.indices)
           src == <<cropped_len(height, dist.crop),
                    cropped_len(width, dist.crop)>>
       IN dist' =
            IF broadcastable(src, <<height, width>>)
            THEN [dist EXCEPT
                    !.data = with_slice(dist.data, dist.i,
                                        assign_cropped(mat_corrected, height,
                                                       width, dist.crop)),
                    !.resampled = dist.resampled + 1,
                    !.i = dist.i + 1]
            ELSE [dist EXCEPT
                    !.pc = "raised",
                    !.resampled = dist.resampled + 1,
                    !.error = Raised("ValueError", BroadcastMessage, "none")]
    /\ UNCHANGED <<est, load, med>>

\* Lines 303-306: one iteration of the loop.
DiscorpyUnwarpSlice ==
    /\ dist.pc = "loop"
    /\ dist.variant = "B"
    /\ dist.i < dist.shape[1]
    /\ LET mat == map_coordinates(slice_of(dist.data, dist.i, height, width),
                                  height, width, dist.indices)
       IN dist' = [dist EXCEPT !.data = with_slice(dist.data, dist.i, mat),
                               !.resampled = dist.resampled + 1,
                               !.i = dist.i + 1]
    /\ UNCHANGED <<est, load, med>>

\* Lines 211 and 308: the loop is over, data is returned.
Return(variant) ==
    /\ dist.pc = "loop"
    /\ dist.variant = variant
    /\ dist.i = dist.shape[1]
    /\ dist' = [dist EXCEPT !.pc = "returned", !.returned = dist.shape,
                            !.returned_buffer = dist.buffer]
    /\ UNCHANGED <<est, load, med>>

ProjReturn == Return("A")
DiscorpyReturn == Return("B")

\* ---- claims about the distortion correctors ----

Finished == dist.pc \in {"returned", "raised"}

StepsAllOne == dist.steps[1] = 1 /\ dist.steps[2] = 1

\* C4: variant A with crop = c on slices of shape (H, W), 2*c < min(H, W),
\* and an otherwise accepted call (a coefficient file that loads, steps of 1,
\* a coordinate spread of at least 1), completes and returns slices of shape
\* (H - 2*c, W - 2*c).
C4_CroppedShape ==
    (/\ dist.variant = "A"
     /\ Finished
     /\ 2 * dist.crop < Min2(height, width)
     /\ dist.metadata_path \in {"identity.txt", "barrel.txt"}
     /\ StepsAllOne
     /\ dist.error.msg /= PreviewMessage)
    => /\ dist.pc = "returned"
       /\ dist.returned = <<dist.shape[1], height - 2 * dist.crop,
                            width - 2 * dist.crop>>

\* C5: in both variants a preview step above 1 on the height or width axis
\* makes the call fail with the step-rejection error, before any accelerator
\* buffer is allocated and before any slice is changed, whatever the other
\* arguments (the coefficient file path among them) are.
C5_StepRejected ==
    (Finished /\ ~StepsAllOne)
    => /\ dist.pc = "raised"
       /\ dist.error = Raised("ValueError", StepMessage, "none")
       /\ ~dist.allocated
       /\ dist.data = dist.input

\* C6: in both variants a coefficient file path that does not exist or
\* cannot be read makes the call fail with the descriptive error ("No such
\* file", or "Can't open this file" carrying the loader's exception as its
\* cause); the loader's own exception never reaches the caller.
C6_DescriptiveFileError ==
    (/\ Finished
     /\ dist.metadata_path \in {"missing.txt", "locked.txt"}
     /\ StepsAllOne)
    => /\ dist.pc = "raised"
       /\ dist.error.type = "ValueError"
       /\ \/ dist.error.msg = NoSuchFileMessage
          \/ dist.error.msg = CantOpenMessage /\ dist.error.cause /= "none"

\* C7: variant A called with metadata_path = None and explicit
\* center_from_left, center_from_top and polynomial_coeffs (steps of 1) does
\* not fail on the missing file; it uses x_center = center_from_left -
\* starts[x], y_center = center_from_top - starts[y] and the coefficients
\* given.
C7_ExplicitCenter ==
    (/\ dist.variant = "A"
     /\ Finished
     /\ dist.metadata_path = None
     /\ dist.given
     /\ StepsAllOne)
    => /\ dist.error.type \in {"none", "ValueError"}
       /\ dist.error.msg \in {"", PreviewMessage, BroadcastMessage}
       /\ dist.x_center = Scaled(dist.center_from_left, CenterScale)
                            - CenterScale * dist.starts[2]
       /\ dist.y_center = Scaled(dist.center_from_top, CenterScale)
                            - CenterScale * dist.starts[1]
       /\ dist.list_fact = Coefficients(dist.polynomial_coeffs)

\* The call has built its coordinate field.
FieldBuilt == dist.pc \in {"spread", "loop", "returned"}

\* The model whose only coefficient is 1.
IdentityModel == dist.list_fact = <<1>>

\* C11: with the identity model (coefficients [1.0]) and steps of 1, either
\* variant maps every output pixel (y, x) to the source coordinate (y, x),
\* whatever the centre and the preview offset, and a call that returns
\* (variant A with crop = 0) returns the input volume, slice for slice.
C11_IdentityModel ==
    (FieldBuilt /\ IdentityModel /\ StepsAllOne) =>
        /\ \A p \in Pixels(height, width) :
              dist.indices[p] = <<CoordScale * p[1], CoordScale * p[2]>>
        /\ (dist.pc = "returned" /\ dist.crop = 0) =>
              /\ dist.returned = dist.shape
              /\ dist.data = dist.input

\* Variant A returned a two-slice 3 x 2 volume under the identity model, with
\* a preview offset that puts the centre above the image.
C11_Witness ==
    /\ dist.pc = "returned" /\ dist.variant = "A" /\ dist.crop = 0
    /\ IdentityModel /\ StepsAllOne
    /\ dist.shape = <<2, 3, 2>>
    /\ dist.starts = <<1, 0, 0>> /\ dist.y_center < 0
    /\ dist.resampled = 2
    /\ dist.data = dist.input
    /\ \E a, b \in DOMAIN dist.input : dist.input[a] /= dist.input[b]

\* Variant B returned a volume under the identity model, with a preview
\* offset along x.
C11_WitnessDiscorpy ==
    /\ dist.pc = "returned" /\ dist.variant = "B"
    /\ IdentityModel /\ StepsAllOne
    /\ dist.shape = <<2, 2, 3>>
    /\ dist.starts = <<0, 1, 0>>
    /\ dist.data = dist.input

\* The statement of C12 as given: each of the three operations leaves the
\* caller's volume as it was and returns a buffer of its own.
C12_OwnOutputEverywhere ==
    /\ med.pc = "returned" =>
          /\ med.data = med.input
          /\ med.returned_buffer /= med.buffer
    /\ dist.pc = "returned" =>
          /\ dist.data = dist.input
          /\ dist.returned_buffer /= dist.buffer

\* C12: median_filter3d (and remove_outlier3d through it) allocates its own
\* output buffer: after a successful call the caller's volume holds the
\* values it held before and the returned volume is a distinct buffer.  The
\* two distortion variants allocate no output: they write every corrected
\* slice into the caller's volume and return that same buffer.
C12_OutputBuffers ==
    /\ med.pc = "returned" =>
          /\ med.data = med.input
          /\ med.out_buffer = OwnBuffer
          /\ med.returned_buffer = med.out_buffer
          /\ med.returned_buffer /= med.buffer
    /\ dist.pc = "returned" =>
          /\ dist.buffer = CallerBuffer
          /\ dist.returned_buffer = dist.buffer
          /\ dist.resampled = dist.shape[1]

\* Variant B returned the caller's buffer, whose values the barrel model
\* has changed.
C12_Witness ==
    /\ dist.pc = "returned" /\ dist.variant = "B"
    /\ dist.metadata_path = "barrel.txt"
    /\ dist.returned_buffer = CallerBuffer
    /\ dist.data /= dist.input

\* The median filter returned its own buffer, whose values differ from the
\* caller's volume.
C12_WitnessMedian ==
    /\ med.pc = "returned"
    /\ med.returned_buffer = OwnBuffer
    /\ med.out /= med.data
    /\ med.data = med.input

\* Variant A reached the check of line 194 with a spread below 1.
SpreadBelowOne ==
    /\ dist.indices /= << >>
    /\ diff_y(dist.indices) < CoordScale

\* C13: variant A fails with the geometry-degenerate error exactly when
\* max(yd) - min(yd) < 1, and every failure of the call happens before the
\* first slice is resampled or written, so a failed call leaves every slice
\* as it was.
C13_FailsBeforeFirstSlice ==
    (dist.variant = "A" /\ Finished) =>
        /\ (dist.pc = "raised" /\ dist.error.msg = PreviewMessage)
              <=> SpreadBelowOne
        /\ dist.pc = "raised" =>
              /\ dist.resampled = 0
              /\ dist.data = dist.input

\* The threads of the launch that have voxel (z, y, x): blockIdx.z = z,
\* blockIdx.y = y and blockIdx.x * 128 + threadIdx.x = x, as
\* <<blockIdx.x, blockIdx.y, blockIdx.z, threadIdx.x>>.
ThreadsOf(grid, block, z, y, x) ==
    {<<xt[1], by, bz, xt[2]>> :
        xt \in {q \in (0..(grid[1] - 1)) \X (0..(block[1] - 1)) :
                  q[1] * 128 + q[2] = x},
        by \in {b \in 0..(grid[2] - 1) : b = y},
        bz \in {b \in 0..(grid[3] - 1) : b = z}}

\* C14: the launch uses a block of (128, 1, 1) threads and a grid of
\* (ceil(width / 128), height, depth) blocks; every voxel (z, y, x) has
\* exactly one thread and is written by the launch, and fewer than 128
\* threads of a row fall outside the volume.
C14_LaunchGeometry ==
    med.launched =>
        /\ med.block = <<128, 1, 1>>
        /\ med.grid[1] * 128 >= med.shape[3]
        /\ (med.grid[1] - 1) * 128 < med.shape[3]
        /\ med.grid[2] = med.shape[2]
        /\ med.grid[3] = med.shape[1]
        /\ \A idx \in Indices(med.shape) :
              /\ Cardinality(ThreadsOf(med.grid, med.block,
                                       idx[1], idx[2], idx[3])) = 1
              /\ med.out[idx] /= Uninitialised
        /\ med.grid[1] * med.block[1] - med.shape[3] \in 0..127

\* A launch on rows of 129 voxels: two blocks a row, 127 threads outside.
C14_Witness ==
    /\ med.pc = "returned" /\ med.launched
    /\ med.shape = <<2, 2, 129>>
    /\ med.grid = <<2, 2, 2>>
    /\ med.grid[1] * med.block[1] - med.shape[3] = 127
    /\ ThreadsOf(med.grid, med.block, 1, 1, 128) = {<<1, 1, 1, 0>>}

\* A launch on rows of exactly two blocks: no thread outside.
C14_WitnessFullBlocks ==
    /\ med.pc = "returned" /\ med.launched
    /\ med.shape[3] = 256
    /\ med.grid[1] = 2

\* ---- a call on a chunk of the volume ----

\* The slices lo .. hi - 1 of a volume, as a volume of hi - lo slices.
chunk_of(data, lo, hi, h, w) ==
    [idx \in Indices(<<hi - lo, h, w>>) |-> data[<<idx[1] + lo, idx[2], idx[3]>>]]

\* Lines 206-210 and 303-306: the loop over the slices i .. n - 1 of a
\* volume of n slices, with the field ind (variant B has crop = 0).
RECURSIVE unwarp_loop(_, _, _, _, _, _, _)
unwarp_loop(data, n, i, h, w, ind, crop) ==
    IF i >= n THEN data
    ELSE unwarp_loop(
             with_slice(data, i,
                        assign_cropped(
                            map_coordinates(slice_of(data, i, h, w), h, w, ind),
                            h, w, crop)),
             n, i + 1, h, w, ind, crop)

\* Lines 132-203 and 262-300 for a file that loads: the field of a call with
\* slices of shape (h, w), which the volume and its slice count do not enter.
field_of(h, w, metadata_path, starts) ==
    indices(h, w,
            Scaled(load_path(metadata_path).xcenter, CenterScale)
              - CenterScale * starts[x_dim + 1],
            Scaled(load_path(metadata_path).ycenter, CenterScale)
              - CenterScale * starts[y_dim + 1],
            Coefficients(load_path(metadata_path).list_fact))

\* The volume two chunk results make when put back in slice order.
Reassembled(first, second, k) ==
    [idx \in DOMAIN dist.input |->
        IF idx[1] < k THEN first[idx]
        ELSE second[<<idx[1] - k, idx[2], idx[3]>>]]

\* C15: the slice loop reads slice i only before it writes slice i and reads
\* no other slice, and the field depends only on (H, W), the model and the
\* preview offset; so every corrected slice is a function of its own input
\* slice, and correcting the chunks [0, k) and [k, n) of a volume separately
\* and putting the results back in order gives the volume the call on the
\* whole volume returns.
C15_ChunkIndependent ==
    (dist.pc \in {"loop", "returned"}) =>
        \A f \in {field_of(height, width, dist.metadata_path, dist.starts)} :
            /\ dist.indices = f
            /\ \A j \in 0..(dist.shape[1] - 1) :
                  slice_of(dist.data, j, height, width) =
                      IF j < dist.i
                      THEN assign_cropped(
                               map_coordinates(
                                   slice_of(dist.input, j, height, width),
                                   height, width, f),
                               height, width, dist.crop)
                      ELSE slice_of(dist.input, j, height, width)
            /\ dist.pc = "returned" =>
                  \A k \in 0..dist.shape[1] :
                      \E first \in {unwarp_loop(
                                        chunk_of(dist.input, 0, k, height, width),
                                        k, 0, height, width, f, dist.crop)},
                         second \in {unwarp_loop(
                                         chunk_of(dist.input, k, dist.shape[1],
                                                  height, width),
                                         dist.shape[1] - k, 0, height, width,
                                         f, dist.crop)} :
                          dist.data = Reassembled(first, second, k)

\* Variant A returned a two-slice volume that the barrel model changed, and
\* whose two corrected slices differ.
C15_Witness ==
    /\ dist.pc = "returned" /\ dist.variant = "A"
    /\ dist.metadata_path = "barrel.txt"
    /\ dist.shape[1] = 2
    /\ dist.data /= dist.input
    /\ slice_of(dist.data, 0, height, width) /= slice_of(dist.data, 1, height, width)
    /\ slice_of(dist.data, 0, height, width) /= slice_of(dist.input, 1, height, width)

\* Variant B in the middle of the loop: slice 0 written, slice 1 not yet read.
C15_WitnessMidLoop ==
    /\ dist.pc = "loop" /\ dist.variant = "B"
    /\ dist.metadata_path = "barrel.txt"
    /\ dist.shape[1] = 2 /\ dist.i = 1
    /\ slice_of(dist.data, 0, height, width) /= slice_of(dist.input, 0, height, width)

(***************************************************************************)
(* Specifications                                                          *)
(***************************************************************************)

InitEst == EstInit /\ load = LoadIdle /\ med = MedIdle /\ dist = DistIdle
NextEst == CalcMaxSlices
SpecEst == InitEst /\ [][NextEst]_vars

InitLoad == LoadInit /\ est = EstIdle /\ med = MedIdle /\ dist = DistIdle
NextLoad == LoadMetadataTxt
SpecLoad == InitLoad /\ [][NextLoad]_vars

InitMed == MedInit /\ est = EstIdle /\ load = LoadIdle /\ dist = DistIdle
NextMed ==
    \/ RemoveOutlier3d
    \/ MedianFilter3d
    \/ MedValidate
    \/ MedSelectKernel
    \/ MedAllocOut
    \/ MedLaunch
SpecMed == InitMed /\ [][NextMed]_vars

InitDist == DistInit /\ est = EstIdle /\ load = LoadIdle /\ med = MedIdle
NextDist ==
    \/ ProjLoadMetadata
    \/ ProjStepCheck
    \/ ProjResolveCenter
    \/ ProjBuildField
    \/ ProjCheckSpread
    \/ ProjUnwarpSlice
    \/ ProjReturn
    \/ DiscorpyLoadMetadata
    \/ DiscorpyStepCheck
    \/ DiscorpyOffsetCenter
    \/ DiscorpyBuildField
    \/ DiscorpyUnwarpSlice
    \/ DiscorpyReturn
SpecDist == InitDist /\ [][NextDist]_vars

\* The median filter on wide volumes.
InitGrid == MedWideInit /\ est = EstIdle /\ load = LoadIdle /\ dist = DistIdle
NextGrid == NextMed
SpecGrid == InitGrid /\ [][NextGrid]_vars

\* The three operations that filter or correct a volume.
InitApply == InitMed \/ InitDist
NextApply == NextMed \/ NextDist
SpecApply == InitApply /\ [][NextApply]_vars

====
